---- MODULE Spec2Model ----
(***************************************************************************)
(* Strided sliding-window perplexity evaluation, as written in the code    *)
(* cell of Perplexity_Tutorial.ipynb.  The tokenizer and the language      *)
(* model are external: the tokenizer is the choice of `tokens` in Init,    *)
(* the model call is a step that either returns a loss or raises.          *)
(* Losses are integers and the final value is kept as the pair             *)
(* <<sum of nlls, divisor>> whose quotient the code exponentiates.         *)
(***************************************************************************)
EXTENDS Integers, Sequences, FiniteSets, TLC

\* ---- bounds of the model ------------------------------------------------
MaxSeqLen == 6
MaxLen == 3

Vocab == {0, 1}
LossVals == {1, 2}
CfgVals == (-1)..MaxLen

\* ---- program constant ---------------------------------------------------
IgnoreIndex == -100

VARIABLES
    tokens,        \* encodings.input_ids (one row)
    max_length,
    stride,
    pc,            \* "start", "loop", "score", "finish", "done", "failed"
    it,            \* next value the range iterator yields
    begin_loc,     \* loop locals: unbound until the first iteration and
    end_loc,       \*   never read before it (stack() of no nlls raises first)
    trg_len,
    prev_end_loc,
    input_ids,
    target_ids,
    nlls,
    ppl,           \* <<>> while unset, else <<sum of nlls, divisor>>
    error,         \* "" or the name of the exception that ended the cell
    exit,          \* how the for loop was left: "", "break", "exhausted"
    calls          \* history of the model calls made, in order

vars == <<tokens, max_length, stride, pc, it, begin_loc, end_loc, trg_len,
          prev_end_loc, input_ids, target_ids, nlls, ppl, error, exit, calls>>

inputs == <<tokens, max_length, stride>>

seq_len == Len(tokens)

Min(a, b) == IF a <= b THEN a ELSE b
Max(a, b) == IF a >= b THEN a ELSE b

SeqsUpTo(n) == UNION {[1..k -> Vocab] : k \in 0..n}

\* ---- Python / torch slicing ---------------------------------------------
\* A slice bound i on a dimension of size n: negative counts from the end,
\* and the result is clamped into 0..n.
Norm(i, n) == IF i < 0 THEN Max(i + n, 0) ELSE Min(i, n)

\* s[lo:hi]
Slice(s, lo, hi) ==
    LET n == Len(s)
        a == Norm(lo, n)
        b == Norm(hi, n)
    IN  IF b <= a THEN <<>> ELSE [j \in 1..(b - a) |-> s[a + j]]

\* s[:stop] = v   (on a copy of s)
AssignPrefix(s, stop, v) ==
    LET k == Norm(stop, Len(s))
    IN  [j \in 1..Len(s) |-> IF j <= k THEN v ELSE s[j]]

RECURSIVE SumSeq(_)
SumSeq(s) == IF s = <<>> THEN 0 ELSE s[1] + SumSeq(Tail(s))

\* ---- the range(0, seq_len, stride) iterator -----------------------------
RangeHasNext(i) ==
    \/ stride > 0 /\ i < seq_len
    \/ stride < 0 /\ i > seq_len

RangeNext(i) == i + stride

\* ---- the body of the loop -----------------------------------------------
EndLoc_stride(b) == Min(b + stride, seq_len)
EndLoc(b) == Min(b + max_length, seq_len)

TrgLen_stride(e) == stride
TrgLen(e) == e - prev_end_loc

InputIds(b, e) == Slice(tokens, b, e)

TargetIds_nomask(ids, t) == ids
TargetIds_suffix(ids, t) ==
    [j \in 1..Len(ids) |-> IF j > Len(ids) - t THEN IgnoreIndex ELSE ids[j]]
TargetIds(ids, t) == AssignPrefix(ids, -t, IgnoreIndex)

NegLogLikelihood(loss) == loss * trg_len

NewPrevEndLoc_stale == prev_end_loc
NewPrevEndLoc == end_loc

BreakTaken_never == FALSE
BreakTaken == end_loc = seq_len

Ppl_perWindow == <<SumSeq(nlls), Len(nlls)>>
Ppl == <<SumSeq(nlls), end_loc>>

Call(raised, loss) ==
    [begin_loc |-> begin_loc, end_loc |-> end_loc, trg_len |-> trg_len,
     prev_end_loc |-> prev_end_loc, input_ids |-> input_ids,
     target_ids |-> target_ids, raised |-> raised, loss |-> loss]

\* ---- initial state ------------------------------------------------------
Init ==
    /\ tokens \in SeqsUpTo(MaxSeqLen)
    /\ max_length \in CfgVals
    /\ stride \in CfgVals
    /\ pc = "start"
    /\ it = 0
    /\ begin_loc = 0
    /\ end_loc = 0
    /\ trg_len = 0
    /\ prev_end_loc = 0
    /\ input_ids = <<>>
    /\ target_ids = <<>>
    /\ nlls = <<>>
    /\ ppl = <<>>
    /\ error = ""
    /\ exit = ""
    /\ calls = <<>>

\* ---- actions ------------------------------------------------------------
\* nlls = []; prev_end_loc = 0; range(0, seq_len, stride) is built.
\* range() raises ValueError for a zero step.
Setup ==
    /\ pc = "start"
    /\ nlls' = <<>>
    /\ prev_end_loc' = 0
    /\ IF stride = 0
       THEN /\ pc' = "failed"
            /\ error' = "ValueError"
       ELSE /\ pc' = "loop"
            /\ error' = error
    /\ it' = 0
    /\ UNCHANGED <<inputs, begin_loc, end_loc, trg_len, input_ids,
                   target_ids, ppl, exit, calls>>

\* The iterator yields begin_loc; the window and its targets are built.
NextWindow ==
    /\ pc = "loop"
    /\ RangeHasNext(it)
    /\ begin_loc' = it
    /\ it' = RangeNext(it)
    /\ end_loc' = EndLoc(begin_loc')
    /\ trg_len' = TrgLen(end_loc')
    /\ input_ids' = InputIds(begin_loc', end_loc')
    /\ target_ids' = TargetIds(input_ids', trg_len')
    /\ pc' = "score"
    /\ UNCHANGED <<inputs, prev_end_loc, nlls, ppl, error, exit, calls>>

\* The iterator is exhausted: the for loop ends without a break.
Exhausted ==
    /\ pc = "loop"
    /\ ~RangeHasNext(it)
    /\ pc' = "finish"
    /\ exit' = "exhausted"
    /\ UNCHANGED <<inputs, it, begin_loc, end_loc, trg_len, prev_end_loc,
                   input_ids, target_ids, nlls, ppl, error, calls>>

\* model(input_ids, labels=target_ids) returns; the rest of the body runs.
ScoreReturn ==
    /\ pc = "score"
    /\ \E loss \in LossVals :
          /\ nlls' = Append(nlls, NegLogLikelihood(loss))
          /\ calls' = Append(calls, Call(FALSE, loss))
    /\ prev_end_loc' = NewPrevEndLoc
    /\ IF BreakTaken
       THEN /\ pc' = "finish"
            /\ exit' = "break"
       ELSE /\ pc' = "loop"
            /\ exit' = exit
    /\ UNCHANGED <<inputs, it, begin_loc, end_loc, trg_len, input_ids,
                   target_ids, ppl, error>>

\* model(...) raises: nothing catches it, the cell ends.
ScoreRaise_swallow ==
    /\ pc = "score"
    /\ calls' = Append(calls, Call(TRUE, 0))
    /\ pc' = "loop"
    /\ UNCHANGED <<inputs, it, begin_loc, end_loc, trg_len, prev_end_loc,
                   input_ids, target_ids, nlls, ppl, error, exit>>

ScoreRaise ==
    /\ pc = "score"
    /\ calls' = Append(calls, Call(TRUE, 0))
    /\ pc' = "failed"
    /\ error' = "ScoringFailed"
    /\ UNCHANGED <<inputs, it, begin_loc, end_loc, trg_len, prev_end_loc,
                   input_ids, target_ids, nlls, ppl, exit>>

\* ppl = exp(stack(nlls).sum() / end_loc); stack() raises on an empty list.
Finish ==
    /\ pc = "finish"
    /\ IF nlls = <<>>
       THEN /\ pc' = "failed"
            /\ error' = "RuntimeError"
            /\ ppl' = ppl
       ELSE /\ pc' = "done"
            /\ error' = error
            /\ ppl' = Ppl
    /\ UNCHANGED <<inputs, it, begin_loc, end_loc, trg_len, prev_end_loc,
                   input_ids, target_ids, nlls, exit, calls>>

Next ==
    \/ Setup
    \/ NextWindow
    \/ Exhausted
    \/ ScoreReturn
    \/ ScoreRaise
    \/ Finish

Spec == Init /\ [][Next]_vars

\* The cell runs to its end: every step that can be taken is taken.
FairSpec == Spec /\ WF_vars(Next)

\* ---- vocabulary of the properties ---------------------------------------
Precond ==
    /\ seq_len >= 1
    /\ max_length >= 1
    /\ stride >= 1
    /\ stride <= max_length

LoopOver == pc \in {"finish", "done"}

Terminated == pc \in {"done", "failed"}

\* Sequence indices (0-based) whose target is not the ignore index in call c.
Scored(c) ==
    {c.begin_loc + j - 1 : j \in {k \in 1..Len(c.target_ids) :
                                      c.target_ids[k] # IgnoreIndex}}

ScoredIn(t) == {i \in 1..Len(calls) : t \in Scored(calls[i])}

RECURSIVE SumTrgLen(_)
SumTrgLen(cs) == IF cs = <<>> THEN 0 ELSE cs[1].trg_len + SumTrgLen(Tail(cs))

\* ---- C1 -----------------------------------------------------------------
\* C1: under the preconditions, once the loop is over every token index
\* 0..seq_len-1 is unmasked in the targets of exactly one processed window.
C1_ScoredExactlyOnce ==
    (Precond /\ LoopOver) =>
        \A t \in 0..(seq_len - 1) : Cardinality(ScoredIn(t)) = 1

C1_Witness ==
    /\ Precond
    /\ pc = "done"
    /\ stride < max_length
    /\ Len(calls) >= 3

\* ---- C2 -----------------------------------------------------------------
\* C2: under the preconditions, the trg_len of all processed windows add up
\* to len(tokens) when the loop is over.
C2_TrgLenSum ==
    (Precond /\ LoopOver) => SumTrgLen(calls) = seq_len

C2_Witness ==
    /\ Precond
    /\ pc = "done"
    /\ Len(calls) >= 2
    /\ calls[Len(calls)].trg_len # stride
    /\ calls[1].trg_len # stride

\* ---- C3 -----------------------------------------------------------------
\* C3: when a precondition is violated no window is handed to the scorer and
\* no perplexity value is produced.
C3_InvalidConfigurationRejected ==
    ~Precond => (pc # "score" /\ calls = <<>> /\ ppl = <<>>)

\* ---- C4 -----------------------------------------------------------------
\* C4: if 1 <= len(tokens) <= max_length, for every admissible stride there
\* is exactly one window, it is the whole sequence, trg_len = seq_len,
\* nothing is masked, and the value is exp of the loss returned for
\* (tokens, tokens): sum of nlls = loss * divisor.
C4_SingleWindow ==
    (Precond /\ seq_len <= max_length) =>
        /\ Len(calls) <= 1
        /\ (pc = "score" => calls = <<>>)
        /\ \A i \in 1..Len(calls) :
              /\ calls[i].begin_loc = 0
              /\ calls[i].end_loc = seq_len
              /\ calls[i].trg_len = seq_len
              /\ calls[i].input_ids = tokens
              /\ calls[i].target_ids = tokens
        /\ (pc = "done" =>
              /\ Len(calls) = 1
              /\ ppl[2] = seq_len
              /\ ppl[1] = calls[1].loss * ppl[2])

C4_Witness ==
    /\ Precond
    /\ pc = "done"
    /\ seq_len <= max_length
    /\ seq_len >= 2
    /\ stride < seq_len

\* ---- C5 -----------------------------------------------------------------
\* C5: under the preconditions, the targets of every processed window have
\* the window's length, hold the ignore index at exactly the first
\* (end_loc - begin_loc - trg_len) positions and the window's own token ids
\* at the last trg_len positions; the unmasked sequence positions are
\* exactly prev_end_loc .. end_loc - 1.
C5_TargetMask ==
    Precond =>
        \A i \in 1..Len(calls) :
            LET c == calls[i]
                n == c.end_loc - c.begin_loc
            IN  /\ Len(c.input_ids) = n
                /\ Len(c.target_ids) = n
                /\ \A j \in 1..n :
                      /\ c.input_ids[j] = tokens[c.begin_loc + j]
                      /\ (j <= n - c.trg_len => c.target_ids[j] = IgnoreIndex)
                      /\ (j > n - c.trg_len =>
                              c.target_ids[j] = tokens[c.begin_loc + j])
                /\ Scored(c) = c.prev_end_loc..(c.end_loc - 1)

C5_Witness ==
    /\ Precond
    /\ \E i \in 1..Len(calls) :
          /\ calls[i].begin_loc > 0
          /\ calls[i].trg_len >= 2
          /\ calls[i].trg_len < Len(calls[i].input_ids)
          /\ calls[i].target_ids[1] = IgnoreIndex
          /\ ~calls[i].raised

\* ---- C6 -----------------------------------------------------------------
\* C6: with stride < max_length, every token scored in a window other than
\* the first has at least max_length - stride tokens of that window before
\* it.
C6_ContextFloor ==
    (Precond /\ stride < max_length) =>
        \A i \in 2..Len(calls) :
            /\ calls[i].prev_end_loc - calls[i].begin_loc
                  >= max_length - stride
            /\ \A t \in Scored(calls[i]) :
                  t - calls[i].begin_loc >= max_length - stride

C6_Witness ==
    /\ Precond
    /\ stride < max_length
    /\ pc = "done"
    /\ Len(calls) >= 2
    /\ calls[Len(calls)].trg_len < stride

\* ---- C7 -----------------------------------------------------------------
\* C7: a scorer failure ends the run at that window: the failing call is the
\* last call made, the failure is the run's outcome, and no perplexity value
\* is produced, whatever was accumulated before.
C7_ScorerFailureAborts ==
    \A i \in 1..Len(calls) :
        calls[i].raised =>
            /\ i = Len(calls)
            /\ pc = "failed"
            /\ error = "ScoringFailed"
            /\ ppl = <<>>
            /\ Len(nlls) = i - 1

C7_Witness ==
    /\ Len(calls) >= 2
    /\ calls[Len(calls)].raised
    /\ nlls # <<>>
    /\ calls[Len(calls)].end_loc < seq_len

\* ---- C8 -----------------------------------------------------------------
C8_BreakOnly ==
    Precond =>
        /\ exit # "exhausted"
        /\ (LoopOver => (exit = "break" /\ end_loc = seq_len))
        /\ (pc = "done" => ppl[2] = seq_len)
        /\ \A i \in 1..Len(calls) :
              (calls[i].end_loc = seq_len /\ ~calls[i].raised) =>
                  (i = Len(calls) /\ LoopOver)

\* C8: under the preconditions the run terminates, the loop is only ever
\* left through the break (never by exhausting the range), the divisor of
\* the final value is seq_len, and no window follows one that reached the
\* end of the sequence.
C8_TerminatesByBreak ==
    /\ []C8_BreakOnly
    /\ (Precond ~> Terminated)

C8_Witness ==
    /\ Precond
    /\ pc = "done"
    /\ exit = "break"
    /\ RangeHasNext(it)
    /\ Len(calls) >= 2

C10_TrgLenWithinWindow ==
    Precond =>
        /\ \A i \in 1..Len(calls) :
              /\ 1 <= calls[i].trg_len
              /\ calls[i].trg_len <= calls[i].end_loc - calls[i].begin_loc
              /\ calls[i].end_loc - calls[i].begin_loc <= max_length
        /\ (pc = "score" =>
              /\ 1 <= trg_len
              /\ trg_len <= end_loc - begin_loc
              /\ end_loc - begin_loc <= max_length)

C10_Witness ==
    /\ Precond
    /\ pc = "score"
    /\ calls # <<>>
    /\ trg_len = 1
    /\ end_loc - begin_loc = max_length
    /\ max_length >= 2

====
